---- MODULE Spec2Model ----
(***************************************************************************)
(* State-machine model of modules/socialnetwork.py (class SocialNetwork)   *)
(* and modules/userprofile.py (class UserProfile).                         *)
(*                                                                         *)
(* UserProfile objects are mutable and are hashed by their data, so the    *)
(* model keeps a heap of objects (one per successful add_profile, object   *)
(* reference = the id it was given) and models the Python set _profile_set *)
(* as a set of entries <reference, hash stored at insertion>.  A profile   *)
(* object returned by add_profile stays in the caller's hands after        *)
(* remove_profile; such objects stay in the heap with their last data.     *)
(***************************************************************************)
EXTENDS Integers, FiniteSets, Sequences, TLC

VARIABLES heap, profiles, name_index, profile_set, friendships, next_id,
          graph, last, fuel

vars == <<heap, profiles, name_index, profile_set, friendships, next_id,
          graph, last, fuel>>

\* the store proper (everything but the heap of caller-visible objects and
\* the record of the last call)
store == <<profiles, name_index, profile_set, friendships, next_id, graph>>

(* ------------------------------ bounds -------------------------------- *)

\* add_profile stops handing out ids after MaxId
MaxId == 3

\* Spec explores the behaviours with at most MaxCalls calls that write to
\* the store (calls that leave it as it was are free); SpecAll explores all
MaxCalls == 4

(* ----------------------------- constants ------------------------------ *)

\* Python None as a user_id (ids start at 1)
NoId == 0

\* Python None as an optional string argument of update_profile
None == "None"

Names == {"a", "b"}

Emails == {"", "e"}

Phones == {""}

Ids == 1..MaxId

(* --------------------------- UserProfile ------------------------------ *)

\* UserProfile.__init__
UserProfile(name, email, phone, user_id) ==
    [name |-> name, email |-> email, phone |-> phone, user_id |-> user_id]

\* UserProfile.update: overwrite the fields that are neither None nor ""
update(self, name, email, phone) ==
    [self EXCEPT !.name  = IF name  # None /\ name  # "" THEN name  ELSE @,
                 !.email = IF email # None /\ email # "" THEN email ELSE @,
                 !.phone = IF phone # None /\ phone # "" THEN phone ELSE @]

\* the slip of telling profiles apart by their id as well
Eq_WithId(self, other) ==
    /\ self.name = other.name
    /\ self.email = other.email
    /\ self.phone = other.phone
    /\ self.user_id = other.user_id

\* UserProfile.__eq__
Eq(self, other) ==
    /\ self.name = other.name
    /\ self.email = other.email
    /\ self.phone = other.phone

\* UserProfile.__hash__: hash((name, email, phone)); the tuple stands for
\* its hash (equal tuples hash equal, and __eq__ settles any collision)
Hash(self) == <<self.name, self.email, self.phone>>

(* ------------------- Python set of UserProfile objects ---------------- *)

\* entries of the set S that a lookup of object o (reference r, 0 when the
\* object is not in the heap) hits: stored hash equal to hash(o), and then
\* identity or __eq__ against the entry's object as it is now (heap hp)
SetLookup(S, hp, r, o) ==
    {e \in S : e.h = Hash(o) /\ (e.ref = r \/ Eq(hp[e.ref], o))}

\* o in S
SetContains(S, hp, r, o) == SetLookup(S, hp, r, o) # {}

\* the slip of leaving the object in the set
SetDiscard_Forgotten(S, hp, r, o) == S

\* S.discard(o)
SetDiscard(S, hp, r, o) ==
    IF SetLookup(S, hp, r, o) = {} THEN S
    ELSE S \ {CHOOSE e \in SetLookup(S, hp, r, o) : TRUE}

\* S.add(o)
SetAdd(S, hp, r, o) ==
    IF SetContains(S, hp, r, o) THEN S
    ELSE S \cup {[ref |-> r, h |-> Hash(o)]}

(* ------------------------------ dicts --------------------------------- *)

\* d.pop(k, None)
Pop(d, k) == [x \in DOMAIN d \ {k} |-> d[x]]

\* d[k] = v
Put(d, k, v) == [x \in DOMAIN d \cup {k} |-> IF x = k THEN v ELSE d[x]]

\* d.get(k, set())
GetSet(d, k) == IF k \in DOMAIN d THEN d[k] ELSE {}

(* --------------------------- graph mirror ----------------------------- *)

addVertex(g, v) == [g EXCEPT !.V = @ \cup {v}]

removeVertex(g, v) ==
    [V |-> g.V \ {v}, E |-> {e \in g.E : e[1] # v /\ e[2] # v}]

addEdge(g, from, to) == [g EXCEPT !.E = @ \cup {<<from, to>>}]

removeEdge(g, from, to) == [g EXCEPT !.E = @ \ {<<from, to>>}]

(* ----------------------- caller-visible objects ----------------------- *)

\* a profile object in the caller's hands: one of the objects add_profile
\* returned (live or since removed), or one the caller constructed itself
\* and never added (user_id None)
Handle(r) == [ref |-> r, obj |-> heap[r]]

Fresh(name, email, phone) ==
    [ref |-> 0, obj |-> UserProfile(name, email, phone, NoId)]

\* the object the caller constructs itself
FreshProfiles == {Fresh("a", "", "")}

Handles == {Handle(r) : r \in DOMAIN heap} \cup FreshProfiles

(* ------------------------------ Init ---------------------------------- *)

\* SocialNetwork.__init__
Init ==
    /\ heap = <<>>
    /\ profiles = <<>>
    /\ name_index = <<>>
    /\ profile_set = {}
    /\ friendships = <<>>
    /\ next_id = 1
    /\ graph = [V |-> {}, E |-> {}]
    /\ last = [op |-> "init", res |-> "ok", id1 |-> NoId, id2 |-> NoId,
               wrote |-> {}, old_name |-> ""]
    /\ fuel = MaxCalls

\* the same store, with no bound on the number of calls
InitAll ==
    /\ heap = <<>>
    /\ profiles = <<>>
    /\ name_index = <<>>
    /\ profile_set = {}
    /\ friendships = <<>>
    /\ next_id = 1
    /\ graph = [V |-> {}, E |-> {}]
    /\ last = [op |-> "init", res |-> "ok", id1 |-> NoId, id2 |-> NoId,
               wrote |-> {}, old_name |-> ""]
    /\ fuel = -1

\* what the last call was and how it ended.  When it wrote something (it
\* completed, or raised midway) the record keeps the ids it was about, the
\* ids whose adjacency sets it wrote to, and the name the profile had before
Done(op, res, id1, id2, wrote, old_name) ==
    [op |-> op, res |-> res, id1 |-> id1, id2 |-> id2, wrote |-> wrote,
     old_name |-> old_name]

Result(op, res, id1, id2) == Done(op, res, id1, id2, {}, "")

\* the call budget: a call that wrote something uses one unit of fuel;
\* negative fuel stands for no bound
Budget ==
    IF fuel < 0 \/ <<heap, store>>' = <<heap, store>>
    THEN fuel' = fuel
    ELSE fuel > 0 /\ fuel' = fuel - 1

(* ------------------------------ helpers ------------------------------- *)

\* SocialNetwork.profile_exists
profile_exists(target) == SetContains(profile_set, heap, 0, target)

\* the slip of self._name_index[name] = {user_id}
IndexAdd_Overwrite(idx, name, user_id) == Put(idx, name, {user_id})

\* self._name_index.setdefault(name, set()).add(user_id)
IndexAdd(idx, name, user_id) ==
    Put(idx, name, GetSet(idx, name) \cup {user_id})

\* the slip of leaving an emptied id-set in the index
IndexDiscard_NoPrune(idx, name, user_id) ==
    IF name \notin DOMAIN idx THEN idx
    ELSE [idx EXCEPT ![name] = @ \ {user_id}]

\* ids = self._name_index.get(name, set()); ids.discard(user_id);
\* if not ids: self._name_index.pop(name, None)
IndexDiscard(idx, name, user_id) ==
    IF name \notin DOMAIN idx THEN idx
    ELSE IF idx[name] \ {user_id} = {} THEN Pop(idx, name)
    ELSE [idx EXCEPT ![name] = @ \ {user_id}]

(* ------------------------------ CREATE -------------------------------- *)

\* the slip of not advancing the counter
Increment_Forgotten(n) == n

\* self._next_id += 1
Increment(n) == n + 1

\* SocialNetwork.add_profile(name, email, phone)
add_profile(name, email, phone) ==
    /\ LET new_profile == UserProfile(name, email, phone, next_id) IN
           IF profile_exists(new_profile)
           THEN /\ last' = Result("add_profile", "DuplicateProfile", NoId, NoId)
                /\ UNCHANGED <<heap, store>>
           ELSE /\ next_id <= MaxId
                /\ next_id' = Increment(next_id)
                /\ heap' = Put(heap, next_id, new_profile)
                /\ profiles' = Put(profiles, next_id, next_id)
                /\ profile_set' = SetAdd(profile_set, heap', next_id, new_profile)
                /\ friendships' = Put(friendships, next_id, {})
                /\ name_index' = IndexAdd(name_index, name, next_id)
                /\ graph' = addVertex(graph, next_id)
                /\ last' = Result("add_profile", "ok", next_id, NoId)
    /\ Budget

\* self._friendships[id1].add(id2); self._friendships[id2].add(id1)
\* (both keys present)
AddPair(f, id1, id2) ==
    [f EXCEPT ![id1] = @ \cup {id2}, ![id2] = @ \cup {id1}]

\* SocialNetwork.add_friendship(profile1, profile2); the arguments are
\* profile objects
add_friendship(profile1, profile2) ==
    /\ LET p1 == profile1.obj
               p2 == profile2.obj
               id1 == p1.user_id
               id2 == p2.user_id
               fail(res) == /\ last' = Result("add_friendship", res, NoId, NoId)
                            /\ UNCHANGED <<heap, store>>
           IN
           IF \/ ~SetContains(profile_set, heap, profile1.ref, p1)
              \/ ~SetContains(profile_set, heap, profile2.ref, p2)
           THEN fail("UnknownProfile")
           ELSE IF Eq(p1, p2)
           THEN fail("SelfFriendship")
           ELSE IF id1 = NoId \/ id2 = NoId
           THEN fail("InvalidId")
           ELSE IF id1 \notin DOMAIN friendships
           THEN \* self._friendships[id1] raises KeyError, nothing written yet
                fail("KeyError")
           ELSE IF id2 \in friendships[id1]
           THEN fail("AlreadyFriends")
           ELSE IF id2 \notin DOMAIN friendships
           THEN \* friendships[id1].add(id2) is done, friendships[id2] raises
                /\ friendships' = [friendships EXCEPT ![id1] = @ \cup {id2}]
                /\ last' = Done("add_friendship", "KeyError", id1, id2,
                                    {id1}, "")
                /\ UNCHANGED <<heap, profiles, name_index, profile_set, next_id,
                               graph>>
           ELSE /\ friendships' = AddPair(friendships, id1, id2)
                /\ graph' = addEdge(addEdge(graph, id1, id2), id2, id1)
                /\ last' = Done("add_friendship", "ok", id1, id2,
                                    {id1, id2}, "")
                /\ UNCHANGED <<heap, profiles, name_index, profile_set, next_id>>
    /\ Budget

(* ------------------------------- READ --------------------------------- *)

\* sorted(S) for a set of ints: the k-th element has k-1 smaller ones
sorted(S) ==
    [k \in 1..Cardinality(S) |->
        CHOOSE x \in S : Cardinality({y \in S : y < x}) = k - 1]

\* [self._profiles[i] for i in ids]: the profile objects (references) of
\* the ids, in their order; raised is set when an id is no key of _profiles
Lookup(ids) ==
    IF \E k \in DOMAIN ids : ids[k] \notin DOMAIN profiles
    THEN [raised |-> TRUE, value |-> <<>>]
    ELSE [raised |-> FALSE, value |-> [k \in DOMAIN ids |-> profiles[ids[k]]]]

\* SocialNetwork.find_profile(name)
find_profile(name) == Lookup(sorted(GetSet(name_index, name)))

\* SocialNetwork.get_friends(profile)
get_friends(profile) ==
    IF profile.user_id = NoId \/ profile.user_id \notin DOMAIN friendships
    THEN [raised |-> FALSE, value |-> <<>>]
    ELSE Lookup(sorted(friendships[profile.user_id]))

\* the number of slots of a small Python set
TableSize == 8

\* the slot a small int is looked for first: hash(x) & mask
Home(x) == x % TableSize

\* the slot it is looked for next: i = (i * 5 + 1 + perturb) & mask, with
\* perturb = hash(x) >> 5
Probe(x) == (5 * Home(x) + 1 + (x \div 32)) % TableSize

\* x can have found its home slot taken in the set self._friendships[k]:
\* another id that can have been in that set has the same home slot
Collides(k, x) ==
    \E y \in 1..(next_id - 1) : y # x /\ y # k /\ Home(y) = Home(x)

\* the slot of x in the set self._friendships[k], G being the pairs <<k, x>>
\* where x sits off its home slot
Slot(G, k, x) == IF <<k, x>> \in G THEN Probe(x) ELSE Home(x)

\* how the sets self._friendships[k], k in keys, can be laid out: which slot
\* an id that collides got depends on what was in the set when it was added.
\* With ids below TableSize there is one layout, each id in its home slot,
\* and a set iterates in ascending order
Layouts(keys) ==
    {G \in SUBSET {kx \in keys \X (1..(next_id - 1)) :
                      /\ kx[2] \in GetSet(friendships, kx[1])
                      /\ Collides(kx[1], kx[2])} :
        \A k \in keys : \A x, y \in GetSet(friendships, k) :
            Slot(G, k, x) = Slot(G, k, y) => x = y}

\* candidate_scores at the end of the loops of suggest_friends (lines
\* 233-239): the friends of friends that are neither my_id nor direct
\* friends, each with the number of direct friends it was found through
candidate_scores(my_id) ==
    LET direct_friends == GetSet(friendships, my_id)
        found == UNION {GetSet(friendships, fid) : fid \in direct_friends}
    IN  [fof_id \in {c \in found : c # my_id /\ c \notin direct_friends} |->
            Cardinality({fid \in direct_friends :
                            fof_id \in GetSet(friendships, fid)})]

\* when the loops come to candidate c first (its place in the insertion
\* order of the dict candidate_scores): sets iterate slot by slot
Discovered(G, my_id, c) ==
    LET at == {Slot(G, my_id, fid) * TableSize + Slot(G, fid, c) :
                  fid \in {f \in GetSet(friendships, my_id) :
                              c \in GetSet(friendships, f)}}
    IN  CHOOSE m \in at : \A n \in at : m <= n

\* Python's order of the names
Alphabet == <<"a", "b">>

NameRank(name) == CHOOSE k \in DOMAIN Alphabet : Alphabet[k] = name

\* sorted(candidate_scores.items(), key=(-score, name)): a stable sort, so
\* candidates with equal keys stay in the order the dict has them
SortedCandidates(G, my_id) ==
    LET scores == candidate_scores(my_id)
        C == DOMAIN scores
        name(c) == NameRank(heap[profiles[c]].name)
        before(c, d) ==
            \/ scores[c] > scores[d]
            \/ scores[c] = scores[d] /\ name(c) < name(d)
            \/ /\ scores[c] = scores[d]
               /\ name(c) = name(d)
               /\ Discovered(G, my_id, c) < Discovered(G, my_id, d)
    IN  [k \in 1..Cardinality(C) |->
            CHOOSE c \in C : Cardinality({d \in C : before(d, c)}) = k - 1]

\* suggest_friends past its first check (lines 231-247): the results the
\* call can have, one for each layout of the adjacency sets it iterates over
Suggestions(my_id) ==
    IF \E c \in DOMAIN candidate_scores(my_id) : c \notin DOMAIN profiles
    THEN \* the sort key self._profiles[item[0]] raises KeyError
         {[raised |-> TRUE, value |-> <<>>]}
    ELSE {[raised |-> FALSE,
           value |-> Lookup(SortedCandidates(G, my_id)).value] :
             G \in Layouts({my_id} \cup GetSet(friendships, my_id))}

\* the slip of reading self._friendships[profile.user_id] with no check of
\* the id before it
suggest_friends_Unguarded(profile) ==
    IF profile.user_id \notin DOMAIN friendships
    THEN {[raised |-> TRUE, value |-> <<>>]}
    ELSE Suggestions(profile.user_id)

\* SocialNetwork.suggest_friends(profile)
suggest_friends(profile) ==
    IF profile.user_id = NoId \/ profile.user_id \notin DOMAIN friendships
    THEN {[raised |-> FALSE, value |-> <<>>]}
    ELSE Suggestions(profile.user_id)

(* ------------------------------ UPDATE -------------------------------- *)

\* the slip of indexing the id under the new name without taking it out of
\* the old one
IndexRename_KeepOld(idx, user_id, old_name, new_name) ==
    IF new_name # None /\ new_name # "" /\ new_name # old_name
    THEN IndexAdd(idx, new_name, user_id)
    ELSE idx

\* the name-index part of update_profile (lines 272-282)
IndexRename(idx, user_id, old_name, new_name) ==
    IF new_name # None /\ new_name # "" /\ new_name # old_name
    THEN IndexAdd(IndexDiscard(idx, old_name, user_id), new_name, user_id)
    ELSE idx

\* SocialNetwork.update_profile(user_id, new_name, new_email, new_phone)
update_profile(user_id, new_name, new_email, new_phone) ==
    /\ IF user_id \notin DOMAIN profiles
           THEN /\ last' = Result("update_profile", "ProfileNotFound", NoId, NoId)
                /\ UNCHANGED <<heap, store>>
           ELSE LET ref == profiles[user_id]
                    profile == heap[ref]
                    discarded == SetDiscard(profile_set, heap, ref, profile)
                IN
                /\ name_index' = IndexRename(name_index, user_id, profile.name,
                                             new_name)
                /\ heap' = [heap EXCEPT ![ref] =
                                update(profile, new_name, new_email, new_phone)]
                /\ profile_set' = SetAdd(discarded, heap', ref, heap'[ref])
                /\ last' = Done("update_profile", "ok", user_id, NoId, {},
                                    profile.name)
                /\ UNCHANGED <<profiles, friendships, next_id, graph>>
    /\ Budget

(* ------------------------------ DELETE -------------------------------- *)

\* for friend_id in done: self._friendships[friend_id].discard(user_id)
Sever(f, user_id, done) ==
    [j \in DOMAIN f |-> IF j \in done THEN f[j] \ {user_id} ELSE f[j]]

\* the friends the loop of remove_profile gets through: list(set) of small
\* ints comes in ascending order, and the loop stops (KeyError) at the first
\* friend_id that is no key of self._friendships
Visited(f, friends) ==
    {j \in friends : \A k \in friends : k <= j => k \in DOMAIN f}

\* SocialNetwork.remove_profile(user_id)
remove_profile(user_id) ==
    /\ IF user_id \notin DOMAIN profiles
       THEN /\ last' = Result("remove_profile", "ProfileNotFound", NoId, NoId)
            /\ UNCHANGED <<heap, store>>
       ELSE LET ref == profiles[user_id]
                profile == heap[ref]
                friends == GetSet(friendships, user_id)
                done == Visited(friendships, friends)
            IN
            /\ profile_set' = SetDiscard(profile_set, heap, ref, profile)
            /\ IF done # friends
               THEN \* self._friendships[friend_id] raised KeyError
                    /\ friendships' = Sever(friendships, user_id, done)
                    /\ last' = Done("remove_profile", "KeyError", user_id,
                                    NoId, done, "")
                    /\ UNCHANGED <<heap, profiles, name_index, next_id, graph>>
               ELSE /\ friendships' = Pop(Sever(friendships, user_id, friends),
                                          user_id)
                    /\ profiles' = Pop(profiles, user_id)
                    /\ name_index' = IndexDiscard(name_index, profile.name,
                                                  user_id)
                    /\ graph' = removeVertex(graph, user_id)
                    /\ last' = Done("remove_profile", "ok", user_id, NoId,
                                    friends, "")
                    /\ UNCHANGED <<heap, next_id>>
    /\ Budget

\* self._friendships[id1].remove(id2); self._friendships[id2].remove(id1)
RemovePair(f, id1, id2) ==
    [f EXCEPT ![id1] = @ \ {id2}, ![id2] = @ \ {id1}]

\* SocialNetwork.remove_friendship(profile1, profile2)
remove_friendship(profile1, profile2) ==
    /\ LET id1 == profile1.obj.user_id
               id2 == profile2.obj.user_id
               fail(res) == /\ last' = Result("remove_friendship", res, NoId, NoId)
                            /\ UNCHANGED <<heap, store>>
           IN
           IF id1 = NoId \/ id2 = NoId
           THEN fail("InvalidId")
           ELSE IF id1 \notin DOMAIN profiles \/ id2 \notin DOMAIN profiles
           THEN fail("UnknownProfile")
           ELSE IF id2 \notin GetSet(friendships, id1)
           THEN fail("NotFriends")
           ELSE IF id1 \notin friendships[id2]
           THEN \* friendships[id1].remove(id2) is done, set.remove raises KeyError
                /\ friendships' = [friendships EXCEPT ![id1] = @ \ {id2}]
                /\ last' = Done("remove_friendship", "KeyError", id1, id2,
                                    {id1}, "")
                /\ UNCHANGED <<heap, profiles, name_index, profile_set, next_id,
                               graph>>
           ELSE /\ friendships' = RemovePair(friendships, id1, id2)
                /\ graph' = removeEdge(removeEdge(graph, id1, id2), id2, id1)
                /\ last' = Done("remove_friendship", "ok", id1, id2,
                                    {id1, id2}, "")
                /\ UNCHANGED <<heap, profiles, name_index, profile_set, next_id>>
    /\ Budget

(* --------------------------- specification ---------------------------- *)

\* the (new_name, new_email, new_phone) argument triples update_profile is
\* called with: each field alone (absent, empty or a value), and all at once
Patches ==
    {<<n, None, None>> : n \in Names \cup {None, ""}}
      \cup {<<None, e, None>> : e \in Emails}
      \cup {<<None, None, p>> : p \in Phones}
      \cup {<<n, e, p>> : n \in Names, e \in Emails \ {""}, p \in Phones}

Next ==
    \/ \E n \in Names, e \in Emails, p \in Phones : add_profile(n, e, p)
    \/ \E i \in Ids, a \in Patches : update_profile(i, a[1], a[2], a[3])
    \/ \E i \in Ids : remove_profile(i)
    \/ \E h1 \in Handles, h2 \in Handles : add_friendship(h1, h2)
    \/ \E h1 \in Handles, h2 \in Handles : remove_friendship(h1, h2)

Spec == Init /\ [][Next]_vars

SpecAll == InitAll /\ [][Next]_vars

(* --------------------- suggest_friends on its own --------------------- *)

\* the live ids of the stores suggest_friends is applied to: what is left of
\* nine profiles, the first and the last sharing a home slot
SuggestIds == {1, 2, 3, 9}

\* the stores: every naming of the profiles (the email tells them apart) and
\* every set of friendships between them
InitSuggest ==
    \E nm \in [SuggestIds -> Names],
       E \in SUBSET {p \in SuggestIds \X SuggestIds : p[1] < p[2]} :
        /\ heap = [i \in SuggestIds |-> UserProfile(nm[i], ToString(i), "", i)]
        /\ profiles = [i \in SuggestIds |-> i]
        /\ name_index = [n \in {nm[i] : i \in SuggestIds} |->
                            {i \in SuggestIds : nm[i] = n}]
        /\ profile_set = {[ref |-> i, h |-> Hash(heap[i])] : i \in SuggestIds}
        /\ friendships = [i \in SuggestIds |->
                             {j \in SuggestIds : <<i, j>> \in E \/ <<j, i>> \in E}]
        /\ next_id = 10
        /\ graph = [V |-> SuggestIds,
                    E |-> {p \in SuggestIds \X SuggestIds :
                              p[2] \in friendships[p[1]]}]
        /\ last = [op |-> "init", res |-> "ok", id1 |-> NoId, id2 |-> NoId,
                   wrote |-> {}, old_name |-> ""]
        /\ fuel = -1

\* a call of suggest_friends: the record of the call keeps what it returned
SuggestFriends(profile) ==
    /\ \E r \in suggest_friends(profile.obj) :
          last' = [op |-> "suggest_friends",
                   res |-> IF r.raised THEN "KeyError" ELSE "ok",
                   id1 |-> profile.obj.user_id, id2 |-> NoId,
                   wrote |-> {}, old_name |-> "", value |-> r.value]
    /\ UNCHANGED <<heap, store, fuel>>

NextSuggest == \E h \in Handles : SuggestFriends(h)

SpecSuggest == InitSuggest /\ [][NextSuggest]_vars

(* -------------------- the calls, statement by statement --------------- *)

\* While a call runs, last keeps its locals: the ids (id1, id2), the profile
\* object (ref), the arguments of update_profile (args), the loop's list
\* (todo), the statement to run next (pc, a place in the call's order) and
\* the statements run so far (done).
Running(op, id1, id2, ref, args) ==
    [op |-> op, res |-> "running", id1 |-> id1, id2 |-> id2, wrote |-> {},
     old_name |-> "", ref |-> ref, args |-> args, todo |-> <<>>, pc |-> 1,
     done |-> <<>>]

\* a call that ends at its checks, before it writes anything
Refused(op, res) ==
    [op |-> op, res |-> res, id1 |-> NoId, id2 |-> NoId, wrote |-> {},
     old_name |-> "", ref |-> 0, args |-> <<>>, todo |-> <<>>, pc |-> 0,
     done |-> <<>>]

\* the statements of add_profile that write, in the order of lines 114-127
add_profile_order ==
    <<"next_id", "profiles", "profile_set", "friendships", "name_index",
      "addVertex">>

\* the slip of updating the mirror before the adjacency sets
add_friendship_order_MirrorFirst ==
    <<"addEdge(id1, id2)", "addEdge(id2, id1)", "friendships[id1].add",
      "friendships[id2].add">>

\* the statements of add_friendship that write, in the order of lines 159-164
add_friendship_order ==
    <<"friendships[id1].add", "friendships[id2].add", "addEdge(id1, id2)",
      "addEdge(id2, id1)">>

\* the slip of changing the fields before the object is out of the set
update_profile_order_UpdateFirst ==
    <<"profile.update", "profile_set.discard", "name_index.rename",
      "profile_set.add">>

\* the statements of update_profile that write, in the order of lines 270-292
update_profile_order ==
    <<"profile_set.discard", "name_index.rename", "profile.update",
      "profile_set.add">>

\* the order the design gives: the edges first, then the indices
remove_profile_order_SeverFirst ==
    <<"list(friends)", "friends.discard", "profile_set.discard",
      "friendships.pop", "profiles.pop", "name_index.discard", "removeVertex">>

\* the statements of remove_profile that write, in the order of lines 310-329
remove_profile_order ==
    <<"profile_set.discard", "list(friends)", "friends.discard",
      "friendships.pop", "profiles.pop", "name_index.discard", "removeVertex">>

\* the statements of remove_friendship that write, in the order of lines
\* 354-359
remove_friendship_order ==
    <<"friendships[id1].remove", "friendships[id2].remove",
      "removeEdge(id1, id2)", "removeEdge(id2, id1)">>

Order(op) ==
    CASE op = "add_profile" -> add_profile_order
      [] op = "add_friendship" -> add_friendship_order
      [] op = "update_profile" -> update_profile_order
      [] op = "remove_profile" -> remove_profile_order
      [] op = "remove_friendship" -> remove_friendship_order

\* what the statement s of the running call raises: KeyError from
\* self._friendships[...] on a missing key, or from set.remove on a missing id
Raises(s) ==
    \/ /\ s = "friends.discard"
       /\ last.todo # <<>>
       /\ Head(last.todo) \notin DOMAIN friendships
    \/ s = "friendships[id2].add" /\ last.id2 \notin DOMAIN friendships
    \/ s = "friendships[id2].remove" /\ last.id1 \notin friendships[last.id2]

\* the heap and the store after the statement s of the running call
Effect(s) ==
    LET id1 == last.id1
        id2 == last.id2
        ref == last.ref
        args == last.args
        cur == [heap |-> heap, profiles |-> profiles,
                name_index |-> name_index, profile_set |-> profile_set,
                friendships |-> friendships, next_id |-> next_id,
                graph |-> graph]
    IN
    CASE s = "next_id" ->
            [cur EXCEPT !.next_id = Increment(next_id),
                        !.heap = Put(heap, ref,
                                     UserProfile(args[1], args[2], args[3], id1))]
      [] s = "profiles" -> [cur EXCEPT !.profiles = Put(profiles, id1, ref)]
      [] s = "profile_set" ->
            [cur EXCEPT !.profile_set = SetAdd(profile_set, heap, ref, heap[ref])]
      [] s = "friendships" ->
            [cur EXCEPT !.friendships = Put(friendships, id1, {})]
      [] s = "name_index" ->
            [cur EXCEPT !.name_index = IndexAdd(name_index, args[1], id1)]
      [] s = "addVertex" -> [cur EXCEPT !.graph = addVertex(graph, id1)]
      [] s = "friendships[id1].add" ->
            [cur EXCEPT !.friendships[id1] = @ \cup {id2}]
      [] s = "friendships[id2].add" ->
            [cur EXCEPT !.friendships[id2] = @ \cup {id1}]
      [] s = "addEdge(id1, id2)" -> [cur EXCEPT !.graph = addEdge(graph, id1, id2)]
      [] s = "addEdge(id2, id1)" -> [cur EXCEPT !.graph = addEdge(graph, id2, id1)]
      [] s = "profile_set.discard" ->
            [cur EXCEPT !.profile_set =
                            SetDiscard(profile_set, heap, ref, heap[ref])]
      [] s = "name_index.rename" ->
            [cur EXCEPT !.name_index =
                            IndexRename(name_index, id1, heap[ref].name, args[1])]
      [] s = "profile.update" ->
            [cur EXCEPT !.heap[ref] = update(@, args[1], args[2], args[3])]
      [] s = "profile_set.add" ->
            [cur EXCEPT !.profile_set = SetAdd(profile_set, heap, ref, heap[ref])]
      [] s = "list(friends)" -> cur
      [] s = "friends.discard" ->
            IF last.todo = <<>> THEN cur
            ELSE [cur EXCEPT !.friendships[Head(last.todo)] = @ \ {id1}]
      [] s = "friendships.pop" -> [cur EXCEPT !.friendships = Pop(friendships, id1)]
      [] s = "profiles.pop" -> [cur EXCEPT !.profiles = Pop(profiles, id1)]
      [] s = "name_index.discard" ->
            [cur EXCEPT !.name_index =
                            IndexDiscard(name_index, heap[ref].name, id1)]
      [] s = "removeVertex" -> [cur EXCEPT !.graph = removeVertex(graph, id1)]
      [] s = "friendships[id1].remove" ->
            [cur EXCEPT !.friendships[id1] = @ \ {id2}]
      [] s = "friendships[id2].remove" ->
            [cur EXCEPT !.friendships[id2] = @ \ {id1}]
      [] s = "removeEdge(id1, id2)" ->
            [cur EXCEPT !.graph = removeEdge(graph, id1, id2)]
      [] s = "removeEdge(id2, id1)" ->
            [cur EXCEPT !.graph = removeEdge(graph, id2, id1)]

\* the running call runs its next statement: it raises, or it writes and
\* moves on (the loop of remove_profile stays until its list is empty), and
\* the call returns after its last statement
Step ==
    /\ last.res = "running"
    /\ LET order == Order(last.op)
           s == order[last.pc]
           loops == s = "friends.discard" /\ last.todo # <<>>
           after == Effect(s)
       IN
       IF Raises(s)
       THEN /\ last' = [last EXCEPT !.res = "KeyError"]
            /\ UNCHANGED <<heap, store>>
       ELSE /\ heap' = after.heap
            /\ profiles' = after.profiles
            /\ name_index' = after.name_index
            /\ profile_set' = after.profile_set
            /\ friendships' = after.friendships
            /\ next_id' = after.next_id
            /\ graph' = after.graph
            /\ last' = [last EXCEPT
                  !.done = IF s = "friends.discard" /\ ~loops THEN @
                           ELSE Append(@, s),
                  !.todo = IF s = "list(friends)"
                           THEN sorted(GetSet(friendships, last.id1))
                           ELSE IF loops THEN Tail(@) ELSE @,
                  !.pc = IF loops THEN @ ELSE @ + 1,
                  !.res = IF ~loops /\ last.pc = Len(order)
                          THEN "ok" ELSE "running"]
    /\ UNCHANGED fuel

\* a call starts: its checks, up to its first write (a call that gets past
\* them uses one unit of fuel)
Started(running) ==
    /\ last.res # "running"
    /\ last' = running
    /\ IF running.res # "running" \/ fuel < 0 THEN fuel' = fuel
       ELSE fuel > 0 /\ fuel' = fuel - 1
    /\ UNCHANGED <<heap, store>>

\* add_profile, lines 108-114
Call_add_profile(name, email, phone) ==
    IF profile_exists(UserProfile(name, email, phone, NoId))
    THEN Started(Refused("add_profile", "DuplicateProfile"))
    ELSE /\ next_id <= MaxId
         /\ Started(Running("add_profile", next_id, NoId, next_id,
                            <<name, email, phone>>))

\* add_friendship, lines 137-156
Call_add_friendship(profile1, profile2) ==
    LET p1 == profile1.obj
        p2 == profile2.obj
        refused(res) == Started(Refused("add_friendship", res))
    IN
    IF \/ ~SetContains(profile_set, heap, profile1.ref, p1)
       \/ ~SetContains(profile_set, heap, profile2.ref, p2)
    THEN refused("UnknownProfile")
    ELSE IF Eq(p1, p2) THEN refused("SelfFriendship")
    ELSE IF p1.user_id = NoId \/ p2.user_id = NoId THEN refused("InvalidId")
    ELSE IF p1.user_id \notin DOMAIN friendships THEN refused("KeyError")
    ELSE IF p2.user_id \in friendships[p1.user_id]
    THEN refused("AlreadyFriends")
    ELSE Started(Running("add_friendship", p1.user_id, p2.user_id, 0, <<>>))

\* update_profile, lines 264-267
Call_update_profile(user_id, new_name, new_email, new_phone) ==
    IF user_id \notin DOMAIN profiles
    THEN Started(Refused("update_profile", "ProfileNotFound"))
    ELSE Started([Running("update_profile", user_id, NoId, profiles[user_id],
                          <<new_name, new_email, new_phone>>)
                     EXCEPT !.old_name = heap[profiles[user_id]].name])

\* remove_profile, lines 304-307
Call_remove_profile(user_id) ==
    IF user_id \notin DOMAIN profiles
    THEN Started(Refused("remove_profile", "ProfileNotFound"))
    ELSE Started(Running("remove_profile", user_id, NoId, profiles[user_id],
                         <<>>))

\* remove_friendship, lines 338-351
Call_remove_friendship(profile1, profile2) ==
    LET id1 == profile1.obj.user_id
        id2 == profile2.obj.user_id
        refused(res) == Started(Refused("remove_friendship", res))
    IN
    IF id1 = NoId \/ id2 = NoId THEN refused("InvalidId")
    ELSE IF id1 \notin DOMAIN profiles \/ id2 \notin DOMAIN profiles
    THEN refused("UnknownProfile")
    ELSE IF id2 \notin GetSet(friendships, id1) THEN refused("NotFriends")
    ELSE Started(Running("remove_friendship", id1, id2, 0, <<>>))

NextSteps ==
    \/ Step
    \/ \E n \in Names, e \in Emails, p \in Phones : Call_add_profile(n, e, p)
    \/ \E i \in Ids, a \in Patches : Call_update_profile(i, a[1], a[2], a[3])
    \/ \E i \in Ids : Call_remove_profile(i)
    \/ \E h1 \in Handles, h2 \in Handles : Call_add_friendship(h1, h2)
    \/ \E h1 \in Handles, h2 \in Handles : Call_remove_friendship(h1, h2)

SpecSteps == Init /\ [][NextSteps]_vars

(* ------------------------------ claims -------------------------------- *)

Live == DOMAIN profiles

\* the profile object of a live id
Data(i) == heap[profiles[i]]

Friends(i) == GetSet(friendships, i)

\* C1: add_profile fails whenever a live profile has the same (name, email,
\* phone): a successful add_profile never leaves a second live profile that
\* is data-equal to the one it created.
C1_DuplicateRejected ==
    (last.op = "add_profile" /\ last.res = "ok") =>
        \A i \in Live \ {last.id1} : ~Eq(Data(i), Data(last.id1))

\* C2: the duplicate-detection set holds exactly one representative per
\* data-equal class of live profiles: every live profile is data-equal to an
\* entry, every entry is a live profile, no two entries are data-equal.
C2_DuplicateSetExact ==
    /\ \A i \in Live : \E e \in profile_set : Eq(heap[e.ref], Data(i))
    /\ \A e \in profile_set : e.ref \in Live /\ profiles[e.ref] = e.ref
    /\ \A e1, e2 \in profile_set : Eq(heap[e1.ref], heap[e2.ref]) => e1 = e2

\* C3: adjacency symmetry: for all ids i and j, j is in friends[i] if and
\* only if i is in friends[j].
C3_AdjacencySymmetry ==
    \A i, j \in Ids : j \in Friends(i) <=> i \in Friends(j)

\* C4: cascade on remove: once remove_profile(X) has succeeded, X has no
\* adjacency entry, no adjacency set contains X, get_friends of every former
\* neighbour of X does not include X, and the adjacency between the other
\* profiles is as it was.
C4_CascadeOnRemove ==
    [][(last'.op = "remove_profile" /\ last'.res = "ok") =>
          LET X == last'.id1 IN
          /\ X \notin DOMAIN friendships'
          /\ \A j \in DOMAIN friendships' : X \notin friendships'[j]
          /\ \A j \in Friends(X) :
                /\ j \in DOMAIN profiles'
                /\ LET r == get_friends(heap[profiles[j]])' IN
                   \A k \in 1..Len(r.value) : r.value[k] # X
          /\ DOMAIN friendships' = DOMAIN friendships \ {X}
          /\ \A i \in DOMAIN friendships' :
                friendships'[i] = friendships[i] \ {X}
      ]_vars

\* a remove_profile that succeeded on a profile with friends, other profiles
\* staying behind
C4_Witness ==
    /\ last.op = "remove_profile"
    /\ last.res = "ok"
    /\ last.wrote # {}
    /\ Cardinality(Live) >= 2

\* C5: add_friendship fails and writes to no adjacency set and no mirror
\* edge whenever the id of either argument is not the id of a live profile
\* (a profile object kept after its removal, or one never added).
C5_UnknownProfileRejected ==
    [][\A h1, h2 \in Handles :
          (/\ add_friendship(h1, h2)
           /\ \/ h1.obj.user_id \notin Live
              \/ h2.obj.user_id \notin Live)
          => /\ last'.res \notin {"ok", "KeyError"}
             /\ UNCHANGED <<friendships, graph>>
      ]_vars

\* C6: add_friendship succeeds for every two distinct live profiles that are
\* not friends yet, and puts each id into the other's adjacency set.
C6_AddFriendshipSucceeds ==
    [][\A h1, h2 \in Handles :
          (/\ add_friendship(h1, h2)
           /\ h1.ref \in Live
           /\ h2.ref \in Live
           /\ h1.ref # h2.ref
           /\ h2.ref \notin Friends(h1.ref))
          => /\ last'.res = "ok"
             /\ h2.ref \in friendships'[h1.ref]
             /\ h1.ref \in friendships'[h2.ref]
      ]_vars

\* C7: remove_friendship fails, changing nothing, unless both ids are live
\* and id2 is in friends[id1]; otherwise it completes, having taken id2 out
\* of friends[id1] and id1 out of friends[id2] and nothing else.
C7_RemoveFriendship ==
    [][\A h1, h2 \in Handles :
          (last'.op = "remove_friendship" /\ remove_friendship(h1, h2)) =>
             LET id1 == h1.obj.user_id
                 id2 == h2.obj.user_id
             IN
             IF id1 \in Live /\ id2 \in Live /\ id2 \in Friends(id1)
             THEN /\ last'.res = "ok"
                  /\ friendships' =
                        [i \in DOMAIN friendships |->
                            IF i = id1 THEN friendships[i] \ {id2}
                            ELSE IF i = id2 THEN friendships[i] \ {id1}
                            ELSE friendships[i]]
                  /\ UNCHANGED <<heap, profiles, name_index, profile_set,
                                 next_id>>
             ELSE /\ last'.res \notin {"ok", "KeyError"}
                  /\ UNCHANGED <<heap, store>>
      ]_vars

\* C8: the name index: an id is under a name if and only if it is live and
\* that is its profile's name, and no name maps to an empty id-set.
C8_NameIndex ==
    /\ \A n \in DOMAIN name_index : name_index[n] # {}
    /\ \A n \in DOMAIN name_index : \A i \in name_index[n] :
          i \in Live /\ Data(i).name = n
    /\ \A i \in Live :
          Data(i).name \in DOMAIN name_index /\ i \in name_index[Data(i).name]

\* a rename has just taken the last profile out of its old name
C8_Witness ==
    /\ last.op = "update_profile"
    /\ last.res = "ok"
    /\ last.old_name # Data(last.id1).name
    /\ last.old_name \notin DOMAIN name_index
    /\ Cardinality(Live) >= 2

\* C9: a rename keeps identity and edges: update_profile on a live id leaves
\* the profile's id, every adjacency set, the set of live ids and the id
\* counter as they were, and afterwards find_profile returns the profile
\* under its new name and under no other name.
C9_RenamePreserves ==
    [][(last'.op = "update_profile" /\ last'.res = "ok") =>
          LET id == last'.id1
              \* the calls that account for the step, and the name each
              \* of them asks for
              asked == {a \in Patches :
                           heap'[profiles[id]] =
                              update(Data(id), a[1], a[2], a[3])}
              new_names == {IF a[1] \in Names THEN a[1] ELSE Data(id).name :
                               a \in asked}
              found(n) == LET r == find_profile(n)' IN
                          ~r.raised /\ \E k \in 1..Len(r.value) :
                                          r.value[k] = profiles[id]
          IN
          /\ UNCHANGED <<profiles, friendships, next_id, graph>>
          /\ heap'[profiles[id]].user_id = id
          /\ new_names # {}
          /\ \A n \in Names \cup DOMAIN name_index' :
                found(n) <=> new_names = {n}
      ]_vars

\* a profile with friends has just been renamed
C9_Witness ==
    /\ last.op = "update_profile"
    /\ last.res = "ok"
    /\ last.old_name # Data(last.id1).name
    /\ Friends(last.id1) # {}

\* C10: failure atomicity: whenever a call fails, by returning a failure or
\* by raising, the id map, the name index, the duplicate set, the adjacency
\* map, the id counter and the mirror are as they were before the call.
C10_FailureAtomicity ==
    [][last'.res # "ok" => UNCHANGED store]_vars

\* C11: ids are never reused: a successful add_profile gives the new profile
\* an id greater than every id given out before (removed profiles included)
\* and advances the counter; a failed add_profile and every other call leave
\* the counter as it was; no call changes the id of an existing profile.
C11_IdsNeverReused ==
    [][/\ IF last'.op = "add_profile" /\ last'.res = "ok"
          THEN /\ \A r \in DOMAIN heap : last'.id1 > r /\ last'.id1 > heap[r].user_id
               /\ heap'[last'.id1].user_id = last'.id1
               /\ next_id' > last'.id1
          ELSE next_id' = next_id
       /\ \A r \in DOMAIN heap : heap'[r].user_id = heap[r].user_id
      ]_vars

\* a profile has just been added after an earlier one was removed
C11_Witness ==
    /\ last.op = "add_profile"
    /\ last.res = "ok"
    /\ \E r \in DOMAIN heap : r \notin Live
    /\ Cardinality(Live) >= 2

\* C12: suggestion set and score: for a live profile id, suggest_friends
\* returns exactly the live profiles c other than id that are no direct
\* friends of id and share at least one friend with id, each once, and the
\* score of c is the number of direct friends of id that are friends of c.
C12_SuggestionSet ==
    \A i \in Live : \A r \in suggest_friends(Data(i)) :
        LET expected == {c \in Live \ {i} :
                            c \notin Friends(i)
                              /\ Friends(i) \cap Friends(c) # {}}
        IN  /\ ~r.raised
            /\ {r.value[k] : k \in DOMAIN r.value} =
                  {profiles[c] : c \in expected}
            /\ Len(r.value) = Cardinality(expected)
            /\ DOMAIN candidate_scores(i) = expected
            /\ \A c \in expected :
                  candidate_scores(i)[c] =
                     Cardinality(Friends(i) \cap Friends(c))

\* C13: suggestion order: the sequence suggest_friends returns is sorted by
\* descending mutual-friend count, ties broken by ascending name, and is
\* determined by the profiles and the adjacency alone, also when two
\* candidates have equal count and equal name.
C13_SuggestionOrder ==
    \A i \in Live :
        /\ Cardinality(suggest_friends(Data(i))) = 1
        /\ \A r \in suggest_friends(Data(i)) :
              \A k \in 1..(Len(r.value) - 1) :
                 LET c == heap[r.value[k]]
                     d == heap[r.value[k + 1]]
                     scores == candidate_scores(i)
                 IN  \/ scores[c.user_id] > scores[d.user_id]
                     \/ /\ scores[c.user_id] = scores[d.user_id]
                        /\ NameRank(c.name) <= NameRank(d.name)

\* C19: suggest_friends for a profile whose id is not the id of a live
\* profile (never given one, or since removed) returns the empty sequence
\* and does not fail.
C19_SuggestUnknownEmpty ==
    \A h \in Handles :
        h.obj.user_id \notin Live =>
            suggest_friends(h.obj) = {[raised |-> FALSE, value |-> <<>>]}

\* a profile that had friends has just been removed, and the caller still
\* holds the object
C19_Witness ==
    /\ last.op = "remove_profile"
    /\ last.res = "ok"
    /\ last.wrote # {}
    /\ Handle(last.id1) \in Handles
    /\ last.id1 \notin Live
    /\ suggest_friends(heap[last.id1]) = {[raised |-> FALSE, value |-> <<>>]}

\* C14: round trip: add_profile followed by remove_profile of the new id
\* leaves the id map, the name index, the duplicate set, the adjacency map
\* and the mirror as they were before the add (all empty when the store was
\* empty), with only the id counter advanced.  Stated in two halves: taking
\* the new id out of the store add_profile leaves gives the store it found,
\* and remove_profile right after the add leaves exactly that.
C14_RoundTrip ==
    [][LET without ==
              LET id == last.id1 IN
              <<[x \in DOMAIN profiles \ {id} |-> profiles[x]],
                [n \in {m \in DOMAIN name_index : name_index[m] # {id}} |->
                    name_index[n] \ {id}],
                {e \in profile_set : e.ref # id},
                [x \in DOMAIN friendships \ {id} |-> friendships[x]],
                [V |-> graph.V \ {id}, E |-> graph.E]>>
       IN
       /\ (last'.op = "add_profile" /\ last'.res = "ok") =>
             /\ without' = <<profiles, name_index, profile_set, friendships,
                             graph>>
             /\ next_id' = next_id + 1
       /\ (/\ last.op = "add_profile"
           /\ last.res = "ok"
           /\ last'.op = "remove_profile"
           /\ last'.id1 = last.id1) =>
             /\ last'.res = "ok"
             /\ <<profiles, name_index, profile_set, friendships, graph>>' =
                   without
             /\ next_id' = next_id
      ]_vars

\* the newest profile has just been removed from a store with other profiles
C14_Witness ==
    /\ last.op = "remove_profile"
    /\ last.res = "ok"
    /\ last.id1 = next_id - 1
    /\ last.wrote = {}
    /\ Cardinality(Live) >= 2

\* C15: mirror consistency: the vertices of the auxiliary graph are the live
\* profile ids, it has an edge (i, j) exactly when j is in friends[i], and
\* its edges come in both directions.
C15_MirrorConsistency ==
    /\ graph.V = Live
    /\ graph.E = {e \in Ids \X Ids : e[2] \in Friends(e[1])}
    /\ \A e \in graph.E : <<e[2], e[1]>> \in graph.E

\* C16: partial update: update_profile on a live id overwrites each of name,
\* email, phone exactly when its argument is given and not empty, never sets
\* a field to empty, and leaves the whole store as it was when every
\* argument is absent or empty.
C16_PartialUpdate ==
    [][\A i \in Ids, a \in Patches :
          (/\ last'.op = "update_profile"
           /\ i \in Live
           /\ update_profile(i, a[1], a[2], a[3])) =>
             LET old == Data(i)
                 new == heap'[profiles[i]]
                 given(x) == x # None /\ x # ""
             IN
             /\ new.name = IF given(a[1]) THEN a[1] ELSE old.name
             /\ new.email = IF given(a[2]) THEN a[2] ELSE old.email
             /\ new.phone = IF given(a[3]) THEN a[3] ELSE old.phone
             /\ new.name = "" => old.name = ""
             /\ new.email = "" => old.email = ""
             /\ new.phone = "" => old.phone = ""
             /\ (~given(a[1]) /\ ~given(a[2]) /\ ~given(a[3])) =>
                   UNCHANGED <<heap, store>>
      ]_vars

\* C17: find_profile(name) returns exactly the live profiles whose name is
\* name, each once, in ascending id order; all of them when several share
\* the name, none when no live profile has it.
C17_FindProfile ==
    \A n \in Names \cup {""} :
        LET r == find_profile(n) IN
        /\ ~r.raised
        /\ {r.value[k] : k \in DOMAIN r.value} =
              {profiles[i] : i \in {j \in Live : Data(j).name = n}}
        /\ \A k \in 1..(Len(r.value) - 1) :
              heap[r.value[k]].user_id < heap[r.value[k + 1]].user_id

\* two live profiles share a name, and a third name has no profile
C17_Witness ==
    /\ \E n \in Names : Len(find_profile(n).value) >= 2
    /\ \E n \in Names : find_profile(n).value = <<>>

\* C18: get_friends(profile) returns exactly the profiles whose ids are in
\* friends[id], in ascending id order, all of them live, and returns the
\* empty sequence, without failing, when the id is not live or the profile
\* has no friends.
C18_GetFriends ==
    \A h \in Handles :
        LET id == h.obj.user_id
            r == get_friends(h.obj)
        IN
        /\ ~r.raised
        /\ id \notin Live => r.value = <<>>
        /\ id \in Live =>
              /\ {heap[r.value[k]].user_id : k \in DOMAIN r.value} = Friends(id)
              /\ \A k \in DOMAIN r.value : heap[r.value[k]].user_id \in Live
              /\ \A k \in 1..(Len(r.value) - 1) :
                    heap[r.value[k]].user_id < heap[r.value[k + 1]].user_id

\* C20: data equality: two profile objects are equal exactly when their
\* (name, email, phone) are, whatever their ids; equal objects have equal
\* hashes; and equal objects are both in the duplicate set or both not.
C20_DataEquality ==
    \A h1, h2 \in Handles :
        LET p == h1.obj
            q == h2.obj
        IN
        /\ Eq(p, q) <=> <<p.name, p.email, p.phone>> = <<q.name, q.email, q.phone>>
        /\ Eq(p, q) => Hash(p) = Hash(q)
        /\ Eq(p, q) =>
              (SetContains(profile_set, heap, h1.ref, p) <=>
                  SetContains(profile_set, heap, h2.ref, q))

\* two objects with different ids are equal, and both are found in the set
C20_Witness ==
    \E h1, h2 \in Handles :
        /\ h1.obj.user_id # h2.obj.user_id
        /\ Eq(h1.obj, h2.obj)
        /\ SetContains(profile_set, heap, h1.ref, h1.obj)
        /\ SetContains(profile_set, heap, h2.ref, h2.obj)

\* C21 as claimed: remove_profile first severs every adjacency edge touching
\* the id, only then takes the profile out of the duplicate set, the name
\* index and the id map, and removes the mirror vertex last: when one of
\* those statements runs, the id is in no other profile's adjacency set.
C21_SeverFirst ==
    [][(last.res = "running" /\ last.op = "remove_profile"
           /\ Len(last'.done) > Len(last.done)) =>
          LET s == last'.done[Len(last'.done)]
              X == last.id1
          IN
          /\ s \in {"profile_set.discard", "name_index.discard", "profiles.pop",
                    "removeVertex"} =>
                \A j \in DOMAIN friendships \ {X} : X \notin friendships[j]
          /\ s = "removeVertex" => last'.res = "ok"
      ]_vars

\* C21 as amended: remove_profile first takes the profile out of the
\* duplicate set, then discards the id from the adjacency set of each of its
\* friends, only then deletes its adjacency entry, its id-map entry and its
\* name-index entry, in that order, and removes the mirror vertex last.
C21_DiscardFirst ==
    [][(last.res = "running" /\ last.op = "remove_profile"
           /\ Len(last'.done) > Len(last.done)) =>
          LET s == last'.done[Len(last'.done)]
              X == last.id1
              ran == {last.done[k] : k \in DOMAIN last.done}
              severed == /\ "list(friends)" \in ran
                         /\ last.todo = <<>>
                         /\ \A j \in GetSet(friendships, X) :
                               j \in DOMAIN friendships =>
                                  X \notin friendships[j]
          IN
          /\ s = "profile_set.discard" =>
                last.done = <<>> /\ UNCHANGED <<friendships, profiles,
                                                name_index, graph>>
          /\ s = "friends.discard" =>
                /\ "profile_set.discard" \in ran
                /\ X \in DOMAIN friendships /\ X \in DOMAIN profiles
                /\ X \in graph.V
                /\ UNCHANGED <<profile_set, profiles, name_index, graph>>
          /\ s = "friendships.pop" =>
                severed /\ X \in DOMAIN profiles /\ X \in graph.V
          /\ s = "profiles.pop" =>
                severed /\ X \notin DOMAIN friendships /\ X \in graph.V
          /\ s = "name_index.discard" =>
                severed /\ X \notin DOMAIN profiles /\ X \in graph.V
          /\ s = "removeVertex" =>
                /\ severed
                /\ X \notin DOMAIN profiles /\ X \notin DOMAIN friendships
                /\ "name_index.discard" \in ran
                /\ last'.res = "ok"
      ]_vars

\* remove_profile has returned after severing the edges of a profile that
\* had friends
C21_Witness ==
    /\ last.op = "remove_profile"
    /\ last.res = "ok"
    /\ \E k \in DOMAIN last.done : last.done[k] = "friends.discard"
    /\ Live # {}

\* C22: the index update of update_profile: the profile is taken out of the
\* duplicate set before any of its fields is changed and put back only after
\* the fields are changed, and at no step does the duplicate set hold an
\* entry whose stored key differs from its profile's current (name, email,
\* phone).
C22_EvictMutateInsert ==
    [][/\ \A e \in profile_set' : e.h = Hash(heap'[e.ref])
       /\ (last.res = "running" /\ last.op = "update_profile"
              /\ Len(last'.done) > Len(last.done)) =>
             LET s == last'.done[Len(last'.done)]
                 ran == {last.done[k] : k \in DOMAIN last.done}
             IN
             /\ s = "profile_set.discard" =>
                   /\ "profile.update" \notin ran
                   /\ heap[last.ref].name = last.old_name
             /\ s = "profile.update" =>
                   /\ "profile_set.discard" \in ran
                   /\ "profile_set.add" \notin ran
                   /\ \A e \in profile_set : e.ref # last.ref
             /\ s = "profile_set.add" =>
                   /\ "profile.update" \in ran
                   /\ last'.res = "ok"
             /\ heap' # heap => s = "profile.update"
      ]_vars

\* update_profile has returned after changing the name of a profile, which
\* is in the duplicate set under its new key
C22_Witness ==
    /\ last.op = "update_profile"
    /\ last.res = "ok"
    /\ Len(last.done) = 4
    /\ heap[last.ref].name # last.old_name
    /\ [ref |-> last.ref, h |-> Hash(heap[last.ref])] \in profile_set

\* C23: the mirror is updated last: addVertex runs after the id map, the
\* duplicate set, the adjacency map and the name index have the new id;
\* addEdge and removeEdge run after both adjacency sets are written;
\* removeVertex runs after every other index has dropped the id; the mirror
\* changes at those statements only, and once a call has touched the mirror
\* it writes to nothing else.
C23_MirrorLast ==
    [][(last.res = "running" /\ Len(last'.done) > Len(last.done)) =>
          LET s == last'.done[Len(last'.done)]
              id1 == last.id1
              id2 == last.id2
              ran == {last.done[k] : k \in DOMAIN last.done}
              mirror == {"addVertex", "addEdge(id1, id2)", "addEdge(id2, id1)",
                         "removeEdge(id1, id2)", "removeEdge(id2, id1)",
                         "removeVertex"}
              core == {Order(last.op)[k] : k \in DOMAIN Order(last.op)} \ mirror
          IN
          /\ graph' # graph => s \in mirror
          /\ s \in mirror =>
                /\ core \ {"friends.discard"} \subseteq ran
                /\ UNCHANGED <<heap, profiles, name_index, profile_set,
                               friendships, next_id>>
          /\ ran \cap mirror # {} => s \in mirror
          /\ s = "addVertex" =>
                /\ id1 \in DOMAIN profiles /\ id1 \in DOMAIN friendships
                /\ id1 \in GetSet(name_index, heap[last.ref].name)
                /\ SetContains(profile_set, heap, last.ref, heap[last.ref])
          /\ s \in {"addEdge(id1, id2)", "addEdge(id2, id1)"} =>
                id2 \in friendships[id1] /\ id1 \in friendships[id2]
          /\ s \in {"removeEdge(id1, id2)", "removeEdge(id2, id1)"} =>
                id2 \notin friendships[id1] /\ id1 \notin friendships[id2]
          /\ s = "removeVertex" =>
                id1 \notin DOMAIN profiles /\ id1 \notin DOMAIN friendships
      ]_vars

\* add_friendship has returned after writing both adjacency sets and both
\* mirror edges
C23_Witness ==
    /\ last.op = "add_friendship"
    /\ last.res = "ok"
    /\ Len(last.done) = 4
    /\ <<last.id1, last.id2>> \in graph.E
    /\ <<last.id2, last.id1>> \in graph.E

\* C24: no two distinct live profiles have the same (name, email, phone):
\* the uniqueness that the duplicate check of add_profile establishes is
\* kept by update_profile and remove_profile.
C24_UniqueTuples ==
    \A i, j \in Live : Eq(Data(i), Data(j)) => i = j

\* C25: no dangling reference in the adjacency map: its keys are the live
\* ids, and every id held in an adjacency set is a live id.
C25_NoDangling ==
    /\ DOMAIN friendships = Live
    /\ \A i \in DOMAIN friendships : friendships[i] \subseteq Live

(* ------------------- caller-constructed profile objects ---------------- *)

\* UserProfile(name, email, phone, user_id=i): the constructor takes an
\* explicit user_id, so the caller can hand add_friendship and
\* remove_friendship an object that never came from add_profile and still
\* carries an id
BuiltProfiles ==
    {[ref |-> 0, obj |-> UserProfile(n, e, p, i)] :
        n \in Names, e \in Emails, p \in Phones, i \in Ids}

\* the calls of Next, and the friendship calls with an argument of either
\* kind
NextBuilt ==
    \/ Next
    \/ \E h1 \in Handles \cup BuiltProfiles, h2 \in BuiltProfiles :
          add_friendship(h1, h2)
    \/ \E h1 \in BuiltProfiles, h2 \in Handles : add_friendship(h1, h2)
    \/ \E h1 \in Handles \cup BuiltProfiles, h2 \in BuiltProfiles :
          remove_friendship(h1, h2)
    \/ \E h1 \in BuiltProfiles, h2 \in Handles : remove_friendship(h1, h2)

SpecBuilt == Init /\ [][NextBuilt]_vars

\* C26: no self-friendship is ever stored: for every live id i, i is not in
\* friends[i], whatever profile objects add_friendship is called with.
C26_NoSelfFriendship ==
    \A i \in Live : i \notin Friends(i)

====
